---- MODULE Spec2Model ----
(***************************************************************************)
(* Model of the session driver `main` of src/src/main.rs: feed connect,    *)
(* pool loading, one run_arbitrage_strategy call per InputVec entry, the   *)
(* merge of the per-configuration selection files into an "ultra"          *)
(* strategy, the monitor call, the optimism call and the final JoinSet     *)
(* drain.  Text is modelled as sequences of one-character strings.         *)
(***************************************************************************)
EXTENDS Integers, Sequences, FiniteSets, TLC

\* ---------------------------------------------------------------- bounds
MaxConfigs == 2
MaxSelLen == 2

\* ------------------------------------------------------------- constants
\* main.rs:48, the preconfigured strategy file of the monitor
DefaultBestStrategyPath == <<"b","e","s","t","_","p","a","t","h","s","_","s","e","l","e","c","t","e","d","/","u","l","t","r","a","_","s","t","r","a","t","e","g","i","e","s","/","0","-","S","O","L","-","S","O","L","L","Y","-","1","-","S","O","L","-","S","P","I","K","E","-","2","-","S","O","L","-","A","M","C","-","G","M","E",".","j","s","o","n">>

\* main.rs:198, the two literal parts of the merged strategy's file path
UltraPrefix == <<"b","e","s","t","_","p","a","t","h","s","_","s","e","l","e","c","t","e","d","/","u","l","t","r","a","_","s","t","r","a","t","e","g","i","e","s","/">>

UltraSuffix == <<".","j","s","o","n">>

\* The selection paths a run may hand back (the run's code is not part of
\* the sources; its result is a String).  "d/a.j" and "d/b.j" are the plain
\* shape directory/stem.extension; the others have no directory, a nested
\* directory, and a dot inside the stem.
SelectionPaths ==
  { <<"d","/","a",".","j">>,
    <<"d","/","b",".","j">>,
    <<"a",".","j">>,
    <<"d","/","u","/","a",".","j">>,
    <<"d","/","a",".","b",".","j">> }

TerminalPcs == {"done", "exit", "panicked"}

\* --------------------------------------------------------------- helpers
\* str::split(c): the pieces of s between occurrences of c; never empty.
RECURSIVE SplitFrom(_, _, _, _)
SplitFrom(s, c, pos, piece) ==
  IF pos > Len(s) THEN <<piece>>
  ELSE IF s[pos] = c THEN <<piece>> \o SplitFrom(s, c, pos + 1, <<>>)
  ELSE SplitFrom(s, c, pos + 1, Append(piece, s[pos]))

Split(s, c) == SplitFrom(s, c, 1, <<>>)

DigitChar(d) == <<"0","1","2","3","4","5","6","7","8","9">>[d + 1]

\* Display of a usize: its decimal digits.
RECURSIVE ToDecimal(_)
ToDecimal(n) ==
  IF n < 10 THEN <<DigitChar(n)>>
  ELSE ToDecimal(n \div 10) \o <<DigitChar(n % 10)>>

\* main.rs:186, path.split('/')
NameParts(p) == Split(p, "/")

\* main.rs:187, name_parts[1] is an index into the Vec: it panics when the
\* path holds no '/'.
NamePanics(p) == Len(NameParts(p)) < 2

\* main.rs:187, name_parts[1].split('.') and then name[0]
NameOf(p) == Split(NameParts(p)[2], ".")[1]

\* main.rs:188-192, idx is the zero-based enumerate() index
NextUltraName(prev, idx, p) ==
  IF idx = 0 THEN ToDecimal(idx) \o <<"-">> \o NameOf(p)
  ELSE prev \o <<"-">> \o ToDecimal(idx) \o <<"-">> \o NameOf(p)

\* main.rs:198
UltraPath(name) == UltraPrefix \o name \o UltraSuffix

\* main.rs:196, vec_to_ultra_strategy.extend(paths_vec.value), mutated
ExtendReversed(acc, value) == value \o acc

\* main.rs:196, vec_to_ultra_strategy.extend(paths_vec.value)
Extend(acc, value) == acc \o value

\* The selection of configuration c with len ranked elements.
SelectionOf(c, len) == [r \in 1..len |-> <<c, r>>]

\* A file holding the JSON of VecSwapPathSelected { value }.
JsonFile(value) == [valid |-> TRUE, partial |-> FALSE, value |-> value]

\* main.rs:199, File::create leaves an empty file, which is no JSON document.
TruncatedFile == [valid |-> FALSE, partial |-> FALSE, value |-> <<>>]

\* A file holding only some of the document's bytes.
PartialFile == [valid |-> FALSE, partial |-> TRUE, value |-> <<>>]

\* A file system with the file at p replaced by content.
WriteFile(files, p, content) ==
  [q \in (DOMAIN files) \cup {p} |-> IF q = p THEN content ELSE files[q]]

\* A successful run has written its selection to the file it returns.
SelectionPersisted(files, p, c, len) ==
  WriteFile(files, p, JsonFile(SelectionOf(c, len)))

\* ----------------------------------------------------------------- state
VARIABLES
  massive_strategy, best_strategy, optimism_strategy,  \* main.rs:39-41
  inputs_vec,            \* main.rs:53, the configurations, by identifier
  pc,                    \* position of main
  result,                \* "running", "ok", or the failure that ended main
  socket,                \* main.rs:147, "connecting" | "connected" | "failed"
  dexs,                  \* main.rs:158, "none" | "loaded"
  cur,                   \* position of the loop of main.rs:164 (1-based)
  runState,              \* per configuration: progress of its run
  tokens_infos,          \* main.rs:165, 218, 225: configurations it covers
  run_selections,        \* main.rs:179, the second component of each result
  vec_best_paths,        \* main.rs:163
  fs,                    \* files: path -> content
  index,                 \* position of the loop of main.rs:185 (0-based)
  ultra_strategy_name,   \* main.rs:184
  vec_to_ultra_strategy, \* main.rs:183
  path,                  \* main.rs:198
  path_best_strategy,    \* main.rs:48, 214
  db,                    \* documents inserted in "ultra_strategies"
  attempts,              \* sink operations attempted so far
  writer,                \* main.rs:200, the BufWriter: "none", or its buffer
                         \* "empty" | "full" (document) | "partial"
  monitor,               \* calls of sorted_interesting_path_strategy
  optimism,              \* "idle" | "called"
  set                    \* main.rs:131, the tasks of the JoinSet

vars == <<massive_strategy, best_strategy, optimism_strategy, inputs_vec, pc,
          result, socket, dexs, cur, runState, tokens_infos, run_selections,
          vec_best_paths, fs, index,
          ultra_strategy_name, vec_to_ultra_strategy, path,
          path_best_strategy, db, attempts, writer, monitor, optimism, set>>

flags == <<massive_strategy, best_strategy, optimism_strategy, inputs_vec>>
AllTokens == {inputs_vec[k] : k \in 1..Len(inputs_vec)}
aggVars == <<index, ultra_strategy_name, vec_to_ultra_strategy, path>>
sinkVars == <<db, attempts, path_best_strategy, writer>>
runVars == <<cur, runState, vec_best_paths, run_selections>>
tailVars == <<monitor, optimism, set>>

Init ==
  /\ massive_strategy \in BOOLEAN
  /\ best_strategy \in BOOLEAN
  /\ optimism_strategy \in BOOLEAN
  /\ \E n \in 0..MaxConfigs : inputs_vec = [k \in 1..n |-> k]
  /\ pc = "setup_logger"
  /\ result = "running"
  /\ socket = "connecting"
  /\ dexs = "none"
  /\ cur = 1
  /\ runState = [k \in 1..Len(inputs_vec) |-> "pending"]
  /\ tokens_infos = {}
  /\ run_selections = <<>>
  /\ vec_best_paths = <<>>
  /\ fs = <<>>
  /\ index = 0
  /\ ultra_strategy_name = <<>>
  /\ vec_to_ultra_strategy = <<>>
  /\ path = <<>>
  /\ path_best_strategy = DefaultBestStrategyPath
  /\ db = <<>>
  /\ attempts = [create |-> 0, to_writer |-> 0, flush |-> 0, drop_flush |-> 0,
                 insert |-> 0]
  /\ writer = "none"
  /\ monitor = [calls |-> 0, state |-> "idle", file |-> <<>>]
  /\ optimism = "idle"
  /\ set = {}

\* `?` on an Err: main returns it.
Fail(why) == /\ pc' = "exit"
             /\ result' = why

\* ---------------------------------------------------- positions of main
\* main.rs:230
PcOptimism == IF optimism_strategy THEN "optimism" ELSE "join"

\* main.rs:224
PcSecondMonitor ==
  IF best_strategy /\ ~massive_strategy THEN "monitor_b" ELSE PcOptimism

\* main.rs:217
PcFirstMonitor == IF best_strategy THEN "monitor_a" ELSE PcSecondMonitor

\* main.rs:156, mutated: the pools are not loaded before the loop
PcAfterConnectNoPools == IF massive_strategy THEN "loop" ELSE PcSecondMonitor

\* main.rs:156
PcAfterConnect == IF massive_strategy THEN "load_pools" ELSE PcSecondMonitor

\* main.rs:164, mutated: the loop stops one entry early
LoopHasNextShort(k) == k < Len(inputs_vec)

\* main.rs:164, the for loop has another entry to take
LoopHasNext(k) == k <= Len(inputs_vec)

\* main.rs:182
PcAfterLoop == IF Len(inputs_vec) > 1 THEN "aggregate" ELSE PcFirstMonitor

\* main.rs:212, mutated: a failed insert is attempted again
PcInsertFailedRetry == "insert"

\* main.rs:212, the `?` after the insert
PcInsertFailed == "exit"

\* ------------------------------------------------------------- actions
\* main.rs:124-135, setup_logger succeeded
SetupLoggerOk ==
  /\ pc = "setup_logger"
  /\ pc' = "connect"
  /\ UNCHANGED <<flags, tokens_infos, result, socket, dexs, runVars, fs, aggVars,
                 sinkVars, tailVars>>

\* main.rs:125, setup_logger()? returned an Err
SetupLoggerErr ==
  /\ pc = "setup_logger"
  /\ Fail("logger")
  /\ UNCHANGED <<flags, tokens_infos, socket, dexs, runVars, fs, aggVars,
                 sinkVars, tailVars>>

\* main.rs:147-154, connect().await succeeded
ConnectOk ==
  /\ pc = "connect"
  /\ socket' = "connected"
  /\ pc' = PcAfterConnect
  /\ UNCHANGED <<flags, tokens_infos, result, dexs, runVars, fs, aggVars, sinkVars, tailVars>>

\* main.rs:154, connect().await? returned an Err
ConnectErr ==
  /\ pc = "connect"
  /\ socket' = "failed"
  /\ Fail("connect")
  /\ UNCHANGED <<flags, tokens_infos, dexs, runVars, fs, aggVars, sinkVars, tailVars>>

\* main.rs:158
LoadPools ==
  /\ pc = "load_pools"
  /\ dexs' = "loaded"
  /\ pc' = "loop"
  /\ UNCHANGED <<flags, tokens_infos, result, socket, runVars, fs, aggVars, sinkVars, tailVars>>

\* main.rs:164-165, next entry of the loop and its get_tokens_infos
GetTokensInfos ==
  /\ pc = "loop"
  /\ LoopHasNext(cur)
  /\ runState' = [runState EXCEPT ![cur] = "infos"]
  /\ tokens_infos' = {inputs_vec[cur]}
  /\ pc' = "run"
  /\ UNCHANGED <<flags, result, socket, dexs, cur, vec_best_paths,
                 run_selections, fs,
                 aggVars, sinkVars, tailVars>>

\* main.rs:167-177, run_arbitrage_strategy is called
RunStart ==
  /\ pc = "run"
  /\ runState' = [runState EXCEPT ![cur] = "running"]
  /\ pc' = "run_await"
  /\ UNCHANGED <<flags, tokens_infos, result, socket, dexs, cur, vec_best_paths,
                 run_selections, fs,
                 aggVars, sinkVars, tailVars>>

\* main.rs:178-180, the run returned Ok((path, _)); the run has written its
\* selection to that path
RunOk ==
  /\ pc = "run_await"
  /\ \E p \in SelectionPaths, len \in 0..MaxSelLen :
       /\ fs' = SelectionPersisted(fs, p, inputs_vec[cur], len)
       /\ vec_best_paths' = Append(vec_best_paths, p)
       /\ run_selections' =
            Append(run_selections, SelectionOf(inputs_vec[cur], len))
  /\ runState' = [runState EXCEPT ![cur] = "ok"]
  /\ cur' = cur + 1
  /\ pc' = "loop"
  /\ UNCHANGED <<flags, tokens_infos, result, socket, dexs, aggVars, sinkVars, tailVars>>

\* main.rs:178, the run returned an Err and `?` returns it from main
RunErr ==
  /\ pc = "run_await"
  /\ runState' = [runState EXCEPT ![cur] = "failed"]
  /\ Fail("run")
  /\ UNCHANGED <<flags, tokens_infos, socket, dexs, cur, vec_best_paths,
                 run_selections, fs, aggVars,
                 sinkVars, tailVars>>

\* main.rs:164, 182, the loop is over
LoopEnd ==
  /\ pc = "loop"
  /\ ~LoopHasNext(cur)
  /\ pc' = PcAfterLoop
  /\ UNCHANGED <<flags, tokens_infos, result, socket, dexs, runVars, fs, aggVars, sinkVars,
                 tailVars>>

\* main.rs:187, name_parts[1] is out of bounds
AggregatePanic ==
  /\ pc = "aggregate"
  /\ index < Len(vec_best_paths)
  /\ NamePanics(vec_best_paths[index + 1])
  /\ pc' = "panicked"
  /\ result' = "panic"
  /\ UNCHANGED <<flags, tokens_infos, socket, dexs, runVars, fs, aggVars, sinkVars, tailVars>>

\* main.rs:186-195, File::open or serde_json::from_reader returned an Err
AggregateErr ==
  /\ pc = "aggregate"
  /\ index < Len(vec_best_paths)
  /\ ~NamePanics(vec_best_paths[index + 1])
  /\ ultra_strategy_name' =
       NextUltraName(ultra_strategy_name, index, vec_best_paths[index + 1])
  /\ Fail("open")
  /\ UNCHANGED <<flags, tokens_infos, socket, dexs, runVars, fs, index,
                 vec_to_ultra_strategy, path, sinkVars, tailVars>>

\* main.rs:185-197, one selection file is named, read and appended
AggregateOk ==
  /\ pc = "aggregate"
  /\ index < Len(vec_best_paths)
  /\ LET p == vec_best_paths[index + 1] IN
       /\ ~NamePanics(p)
       /\ p \in DOMAIN fs
       /\ fs[p].valid
       /\ ultra_strategy_name' = NextUltraName(ultra_strategy_name, index, p)
       /\ vec_to_ultra_strategy' = Extend(vec_to_ultra_strategy, fs[p].value)
  /\ index' = index + 1
  /\ UNCHANGED <<flags, tokens_infos, pc, result, socket, dexs, runVars, fs, path, sinkVars,
                 tailVars>>

\* main.rs:198, after the last selection file
AggregateEnd ==
  /\ pc = "aggregate"
  /\ index = Len(vec_best_paths)
  /\ path' = UltraPath(ultra_strategy_name)
  /\ pc' = "create"
  /\ UNCHANGED <<flags, tokens_infos, result, socket, dexs, runVars, fs, index,
                 ultra_strategy_name, vec_to_ultra_strategy, sinkVars, tailVars>>

\* main.rs:199-200, File::create succeeded; the BufWriter is built on it
CreateOk ==
  /\ pc = "create"
  /\ attempts' = [attempts EXCEPT !.create = @ + 1]
  /\ fs' = WriteFile(fs, path, TruncatedFile)
  /\ writer' = "empty"
  /\ pc' = "to_writer"
  /\ UNCHANGED <<flags, tokens_infos, result, socket, dexs, runVars, aggVars, db,
                 path_best_strategy, tailVars>>

\* main.rs:199, File::create failed
CreateErr ==
  /\ pc = "create"
  /\ attempts' = [attempts EXCEPT !.create = @ + 1]
  /\ Fail("create")
  /\ UNCHANGED <<flags, tokens_infos, socket, dexs, runVars, fs, aggVars, db,
                 path_best_strategy, writer, tailVars>>

\* main.rs:202-203, the content is serialised into the buffered writer; a
\* document larger than the buffer has its first part written to the file
\* already
ToWriterOk ==
  /\ pc = "to_writer"
  /\ attempts' = [attempts EXCEPT !.to_writer = @ + 1]
  /\ writer' = "full"
  /\ fs' \in {fs, WriteFile(fs, path, PartialFile)}
  /\ pc' = "flush"
  /\ UNCHANGED <<flags, tokens_infos, result, socket, dexs, runVars, aggVars, db,
                 path_best_strategy, tailVars>>

\* main.rs:203, to_writer returned an Err: some of the document may have
\* reached the file, some may be left in the buffer; `?` returns and the
\* writer is dropped on the way out
ToWriterErr ==
  /\ pc = "to_writer"
  /\ attempts' = [attempts EXCEPT !.to_writer = @ + 1]
  /\ writer' \in {"empty", "partial"}
  /\ fs' \in {fs, WriteFile(fs, path, PartialFile)}
  /\ pc' = "unwind"
  /\ result' = "to_writer"
  /\ UNCHANGED <<flags, tokens_infos, socket, dexs, runVars, aggVars, db,
                 path_best_strategy, tailVars>>

\* main.rs:204, the buffer reaches the file
FlushOk ==
  /\ pc = "flush"
  /\ attempts' = [attempts EXCEPT !.flush = @ + 1]
  /\ fs' = WriteFile(fs, path, JsonFile(vec_to_ultra_strategy))
  /\ writer' = "empty"
  /\ pc' = "insert"
  /\ UNCHANGED <<flags, tokens_infos, result, socket, dexs, runVars, aggVars, db,
                 path_best_strategy, tailVars>>

\* main.rs:204, flush returned an Err: the unwritten bytes stay in the
\* buffer; `?` returns and the writer is dropped on the way out
FlushErr ==
  /\ pc = "flush"
  /\ attempts' = [attempts EXCEPT !.flush = @ + 1]
  /\ fs' \in {fs, WriteFile(fs, path, PartialFile)}
  /\ pc' = "unwind"
  /\ result' = "flush"
  /\ UNCHANGED <<flags, tokens_infos, socket, dexs, runVars, aggVars, db,
                 path_best_strategy, writer, tailVars>>

\* main.rs:200, 203-204, the drop of the BufWriter writes what its buffer
\* still holds, and the write succeeds
DropWriterOk ==
  /\ pc = "unwind"
  /\ writer # "empty"
  /\ attempts' = [attempts EXCEPT !.drop_flush = @ + 1]
  /\ fs' = WriteFile(fs, path,
                     IF writer = "full" THEN JsonFile(vec_to_ultra_strategy)
                     ELSE PartialFile)
  /\ writer' = "empty"
  /\ pc' = "exit"
  /\ UNCHANGED <<flags, tokens_infos, result, socket, dexs, runVars, aggVars, db,
                 path_best_strategy, tailVars>>

\* main.rs:200, 203-204, a write made by the drop fails too, possibly
\* after an earlier write of the same drop put some bytes in the file; the
\* drop ignores the error
DropWriterErr ==
  /\ pc = "unwind"
  /\ writer # "empty"
  /\ attempts' = [attempts EXCEPT !.drop_flush = @ + 1]
  /\ fs' \in {fs, WriteFile(fs, path, PartialFile)}
  /\ pc' = "exit"
  /\ UNCHANGED <<flags, tokens_infos, result, socket, dexs, runVars, aggVars,
                 db, path_best_strategy, writer, tailVars>>

\* main.rs:200, 203, the BufWriter is dropped with nothing in its buffer
DropWriterEmpty ==
  /\ pc = "unwind"
  /\ writer = "empty"
  /\ pc' = "exit"
  /\ UNCHANGED <<flags, tokens_infos, result, socket, dexs, runVars, fs, aggVars,
                 sinkVars, tailVars>>

\* main.rs:207-214, the insert succeeded
InsertOk ==
  /\ pc = "insert"
  /\ attempts' = [attempts EXCEPT !.insert = @ + 1]
  /\ db' = Append(db, JsonFile(vec_to_ultra_strategy))
  /\ path_best_strategy' = path
  /\ pc' = PcFirstMonitor
  /\ UNCHANGED <<flags, tokens_infos, result, socket, dexs, runVars, fs, aggVars,
                 writer, tailVars>>

\* main.rs:207-212, the insert failed
InsertErr ==
  /\ pc = "insert"
  /\ attempts' = [attempts EXCEPT !.insert = @ + 1]
  /\ pc' = PcInsertFailed
  /\ result' = IF PcInsertFailed = "exit" THEN "insert" ELSE result
  /\ UNCHANGED <<flags, tokens_infos, socket, dexs, runVars, fs, aggVars, db,
                 path_best_strategy, writer, tailVars>>

\* main.rs:218-219 and 225-226, sorted_interesting_path_strategy is called
MonitorCall ==
  /\ pc \in {"monitor_a", "monitor_b"}
  /\ monitor' = [calls |-> monitor.calls + 1, state |-> "running",
                 file |-> path_best_strategy]
  /\ tokens_infos' = AllTokens
  /\ pc' = IF pc = "monitor_a" THEN "await_a" ELSE "await_b"
  /\ UNCHANGED <<flags, result, socket, dexs, runVars, fs, aggVars, sinkVars,
                 optimism, set>>

\* main.rs:220, 227, the monitor returned Ok
MonitorOk ==
  /\ pc \in {"await_a", "await_b"}
  /\ monitor' = [monitor EXCEPT !.state = "returned"]
  /\ pc' = IF pc = "await_a" THEN PcSecondMonitor ELSE PcOptimism
  /\ UNCHANGED <<flags, tokens_infos, result, socket, dexs, runVars, fs, aggVars, sinkVars,
                 optimism, set>>

\* main.rs:220, 227, the monitor returned an Err
MonitorErr ==
  /\ pc \in {"await_a", "await_b"}
  /\ monitor' = [monitor EXCEPT !.state = "failed"]
  /\ Fail("monitor")
  /\ UNCHANGED <<flags, tokens_infos, socket, dexs, runVars, fs, aggVars, sinkVars,
                 optimism, set>>

\* main.rs:231, optimism_tx_strategy returned Ok
OptimismOk ==
  /\ pc = "optimism"
  /\ optimism' = "called"
  /\ pc' = "join"
  /\ UNCHANGED <<flags, tokens_infos, result, socket, dexs, runVars, fs, aggVars, sinkVars,
                 monitor, set>>

\* main.rs:231, optimism_tx_strategy returned an Err
OptimismErr ==
  /\ pc = "optimism"
  /\ optimism' = "called"
  /\ Fail("optimism")
  /\ UNCHANGED <<flags, tokens_infos, socket, dexs, runVars, fs, aggVars, sinkVars,
                 monitor, set>>

\* main.rs:234-239, join_next() on the task set; None ends main with Ok
JoinNext ==
  /\ pc = "join"
  /\ IF set = {}
       THEN /\ pc' = "done"
            /\ result' = "ok"
            /\ set' = set
       ELSE /\ \E t \in set : set' = set \ {t}
            /\ UNCHANGED <<pc, result>>
  /\ UNCHANGED <<flags, tokens_infos, socket, dexs, runVars, fs, aggVars, sinkVars,
                 monitor, optimism>>

Next ==
  \/ SetupLoggerOk \/ SetupLoggerErr
  \/ ConnectOk \/ ConnectErr
  \/ LoadPools
  \/ GetTokensInfos \/ RunStart \/ RunOk \/ RunErr \/ LoopEnd
  \/ AggregatePanic \/ AggregateErr \/ AggregateOk \/ AggregateEnd
  \/ CreateOk \/ CreateErr \/ ToWriterOk \/ ToWriterErr
  \/ FlushOk \/ FlushErr \/ DropWriterOk \/ DropWriterErr \/ DropWriterEmpty
  \/ InsertOk \/ InsertErr
  \/ MonitorCall \/ MonitorOk \/ MonitorErr
  \/ OptimismOk \/ OptimismErr
  \/ JoinNext

Spec == Init /\ [][Next]_vars

\* ------------------------------------------------- terms of the claims
Configs == 1..Len(inputs_vec)

RunFinished(k) == runState[k] \in {"ok", "failed"}

\* The merge of main.rs:185-197 has started or is over.
Merging == pc = "aggregate" \/ index > 0 \/ path # <<>>

\* The merge loop of main.rs:185-197 has taken every selection file.
Merged == path # <<>>

RECURSIVE Flatten(_)
Flatten(seqs) ==
  IF seqs = <<>> THEN <<>> ELSE Head(seqs) \o Flatten(Tail(seqs))

\* The values held by the selection files, in run order.
PersistedValues == [k \in 1..Len(vec_best_paths) |-> fs[vec_best_paths[k]].value]

DistinctPaths ==
  \A j, k \in 1..Len(vec_best_paths) :
    j # k => vec_best_paths[j] # vec_best_paths[k]

RECURSIVE JoinWith(_, _)
JoinWith(pieces, c) ==
  IF Len(pieces) = 1 THEN pieces[1]
  ELSE pieces[1] \o <<c>> \o JoinWith(Tail(pieces), c)

\* The file stem of a path: its last component without its last extension.
FileStem(p) ==
  LET comps == Split(p, "/")
      file == comps[Len(comps)]
      pieces == Split(file, ".")
  IN  IF Len(pieces) = 1 \/ (Len(pieces) = 2 /\ pieces[1] = <<>>) THEN file
      ELSE JoinWith(SubSeq(pieces, 1, Len(pieces) - 1), ".")

\* "0-<id_0>-1-<id_1>-...", id_i the file stem of the i-th path.
RECURSIVE StemName(_, _)
StemName(paths, n) ==
  IF n = 0 THEN <<>>
  ELSE IF n = 1 THEN ToDecimal(0) \o <<"-">> \o FileStem(paths[1])
  ELSE StemName(paths, n - 1) \o <<"-">> \o ToDecimal(n - 1) \o <<"-">>
         \o FileStem(paths[n])

SinkFailures == {"create", "to_writer", "flush", "insert"}

\* --------------------------------------------------------------- claims
\* C1: when the run of one configuration fails, the runs of all other
\* configurations are still executed: once main has ended, every
\* configuration's run has an outcome.
C1_SiblingRunsStillExecuted ==
  ((\E k \in Configs : runState[k] = "failed") /\ pc \in TerminalPcs)
    => \A j \in Configs : RunFinished(j)

\* C2: while selection files are being merged, and afterwards, the run of
\* every configured InputVec entry has finished; none is in progress or
\* not yet started.
C2_MergeAfterAllRuns ==
  Merging => /\ \A k \in Configs : RunFinished(k)
             /\ Len(vec_best_paths) = Len(inputs_vec)

C2_Witness ==
  /\ pc = "aggregate"
  /\ index = 1
  /\ Len(inputs_vec) = 2
  /\ \A k \in Configs : runState[k] = "ok"

\* C3: every configuration run in progress is a task registered in the
\* JoinSet.
C3_RunsAreTasksOfTheSet ==
  \A k \in Configs : runState[k] = "running" => k \in set

\* C4: a failed feed connect never ends a session before the pipeline
\* stages (pool loading first) have run.
C4_FeedFailureDoesNotStopPipeline ==
  (socket = "failed" /\ massive_strategy) => ~(pc \in TerminalPcs /\ dexs = "none")

\* C5: once the merge is over, the merged value is the concatenation, in
\* run order, of the values held by the configurations' selection files;
\* when the runs returned pairwise different files that is the
\* concatenation of the selections the runs produced, nothing dropped,
\* duplicated or reordered.
C5_MergedIsConcatenation ==
  Merged =>
    /\ Len(vec_best_paths) = Len(inputs_vec)
    /\ vec_to_ultra_strategy = Flatten(PersistedValues)
    /\ DistinctPaths => vec_to_ultra_strategy = Flatten(run_selections)

C5_Witness ==
  /\ Merged
  /\ DistinctPaths
  /\ Len(run_selections) = 2
  /\ Len(run_selections[1]) = 2
  /\ Len(run_selections[2]) = 1
  /\ vec_to_ultra_strategy = <<<<1, 1>>, <<1, 2>>, <<2, 1>>>>

\* C6: a selection file the aggregator cannot open or read never ends the
\* session.
C6_UnreadableFileDoesNotEndSession ==
  ~(pc = "exit" /\ result = "open")

\* C7 as stated: each sink write of the merged strategy is attempted at
\* most once in a session, a failed write is never attempted again, at
\* most one document is inserted, and a failed write ends main with that
\* failure and nothing inserted.
C7_EachSinkWriteOnce ==
  /\ attempts.create <= 1
  /\ attempts.to_writer <= 1
  /\ attempts.flush + attempts.drop_flush <= 1
  /\ attempts.insert <= 1
  /\ Len(db) <= 1
  /\ result \in SinkFailures => db = <<>>

\* C7 as amended: main itself attempts each sink operation at most once;
\* after a failed to_writer or flush the drop of the buffered writer makes
\* one more attempt to write the buffered bytes to the same file, and only
\* then; the insert is attempted at most once, at most one document is
\* inserted, and a failed write ends main with that failure and nothing
\* inserted.
C7_SinkWritesAtMostOnce ==
  /\ attempts.create <= 1
  /\ attempts.to_writer <= 1
  /\ attempts.flush <= 1
  /\ attempts.drop_flush <= 1
  /\ attempts.drop_flush = 1 => result \in {"to_writer", "flush"}
  /\ attempts.insert <= 1
  /\ Len(db) <= 1
  /\ attempts.insert >= 1 => (Len(db) = 1 \/ result = "insert")
  /\ result \in SinkFailures => (pc \in {"unwind", "exit"} /\ db = <<>>)
  /\ (result \in SinkFailures /\ pc = "exit") => attempts.insert <= (IF result = "insert" THEN 1 ELSE 0)

C7_Witness ==
  /\ result = "flush"
  /\ pc = "exit"
  /\ attempts = [create |-> 1, to_writer |-> 1, flush |-> 1, drop_flush |-> 1,
                 insert |-> 0]
  /\ fs[path] = JsonFile(vec_to_ultra_strategy)
  /\ db = <<>>

\* C8: the merge never fails to build a name, and the name it builds is
\* "0-<id_0>-1-<id_1>-..." with id_i the file stem of the i-th path.
C8_NameJoinsFileStems ==
  /\ result # "panic"
  /\ Merged =>
       ultra_strategy_name = StemName(vec_best_paths, Len(vec_best_paths))

\* C9: stages run in pipeline order: the pools are loaded before any run
\* begins, a run in progress has its configuration's token metadata, the
\* merged strategy is persisted before the monitor starts, and the
\* execution handoff starts only after the monitor call (when there is
\* one) has returned.
C9_StagesInOrder ==
  /\ \A k \in Configs : runState[k] # "pending" => dexs = "loaded"
  /\ \A k \in Configs : runState[k] = "running" => tokens_infos = {inputs_vec[k]}
  /\ (monitor.state # "idle" /\ Merging) =>
       /\ Len(db) = 1
       /\ path \in DOMAIN fs
       /\ fs[path] = JsonFile(vec_to_ultra_strategy)
       /\ db[1] = JsonFile(vec_to_ultra_strategy)
  /\ monitor.state = "running" => (optimism = "idle" /\ tokens_infos = AllTokens)
  /\ optimism = "called" =>
       /\ monitor.state \in {"idle", "returned"}
       /\ best_strategy => (monitor.state = "returned" /\ monitor.calls = 1)

C9_Witness ==
  /\ optimism = "called"
  /\ monitor.state = "returned"
  /\ Len(db) = 1
  /\ Len(inputs_vec) = 2

\* C10: after the massive stage the monitor is given a file of this
\* session (the merged file for several configurations, the run's
\* selection file for exactly one), never the preconfigured path; and the
\* monitor is called once when best_strategy is set, never otherwise.
C10_MonitorGetsSessionFile ==
  /\ (monitor.calls > 0 /\ massive_strategy /\ Len(inputs_vec) >= 1) =>
       /\ monitor.file # DefaultBestStrategyPath
       /\ Len(inputs_vec) = 1 => monitor.file = vec_best_paths[1]
       /\ Len(inputs_vec) > 1 => monitor.file = path
  /\ monitor.calls <= 1
  /\ ~best_strategy => monitor.calls = 0
  /\ (pc = "done" /\ best_strategy) => monitor.calls = 1

====
